---- MODULE Spec2Model ----
(***************************************************************************)
(* Convolution as a matrix product (Convolutions.ipynb).                   *)
(*                                                                         *)
(* The notebook computes a discrete convolution twice: with the double-sum *)
(* reference cnv/conv_func, and by "fancy indexing" the input with integer *)
(* index arrays into an unfolded matrix Xhat that is multiplied with the   *)
(* flattened filter and reshaped.  A run of the model is one such          *)
(* computation, statement by statement: either one of the notebook's five  *)
(* worked examples (its literal arrays), or the same pipeline on a small   *)
(* generated geometry, where the index arrays come from the window-index   *)
(* enumeration that the literal tables are instances of.                   *)
(*                                                                         *)
(* An array is a record [shape, data]: data is the C-contiguous buffer,    *)
(* indexed from 0; an element is addressed through the row-major strides   *)
(* of shape, as numpy does.                                                *)
(***************************************************************************)
EXTENDS Integers, Sequences, FiniteSets, TLC

VARIABLES
    ex,     \* which computation: a notebook example, or "gen"
    geom,   \* the geometry: rank, n, k, d, o (o = 0: no output-filter axis)
    f,      \* cnv's f: integer keys -> values (<<>> when there is no reference)
    g,      \* cnv's g
    ref,    \* what the cnv cell prints: n -> (f |cnv| g)(n)
    X,      \* the input feature map
    W,      \* the filter as given
    Wf,     \* the filter after W = W.reshape(...)
    idx,    \* the sequence of index arrays, one per gathered axis
    Xhat,   \* the unfolded matrix
    Z,      \* np.dot(Xhat, W)
    out,    \* Z reshaped to the spatial output shape
    pc      \* the statement reached

vars == <<ex, geom, f, g, ref, X, W, Wf, idx, Xhat, Z, out, pc>>

----------------------------------------------------------------------------
(* Bounds of the generated inputs. *)

\* largest length of a generated input with one spatial axis
MaxLen == 5
\* largest height and width of a generated input with two spatial axes
MaxSide == 3
\* largest channel count
MaxD == 2
\* largest number of output filters
MaxO == 2
\* number of generated draws of the input and the filter values
NumPat == 3

----------------------------------------------------------------------------
(* Arrays. *)

RECURSIVE Prod(_)
Prod(s) == IF s = <<>> THEN 1 ELSE Head(s) * Prod(Tail(s))

RECURSIVE SumSeq(_)
SumSeq(s) == IF s = <<>> THEN 0 ELSE Head(s) + SumSeq(Tail(s))

\* Row-major offset of the index tuple ix in an array of the given shape.
RECURSIVE Offset(_, _, _)
Offset(shape, ix, acc) ==
    IF shape = <<>> THEN acc
    ELSE Offset(Tail(shape), Tail(ix), acc * Head(shape) + Head(ix))

\* The index tuple of buffer position i.
Unravel(shape, i) ==
    [a \in 1..Len(shape) |->
        (i \div Prod(SubSeq(shape, a + 1, Len(shape)))) % shape[a]]

At(T, ix) == T.data[Offset(T.shape, ix, 0)]

NoArray == [shape |-> <<0>>, data |-> [i \in 0..-1 |-> 0]]

\* An array from nested row literals, np.array([[...], ...]).
Array2(rows) ==
    LET P == Len(rows)
        K == Len(rows[1])
    IN [shape |-> <<P, K>>,
        data  |-> [i \in 0..(P * K - 1) |-> rows[(i \div K) + 1][(i % K) + 1]]]

\* np.transpose of a 2-D array.
Transpose(T) ==
    LET P == T.shape[1]
        K == T.shape[2]
    IN [shape |-> <<K, P>>,
        data  |-> [i \in 0..(P * K - 1) |-> At(T, <<i % P, i \div P>>)]]

\* Column-major offset of ix, and the index tuple of column-major position i.
RECURSIVE OffsetF(_, _)
OffsetF(shape, ix) ==
    IF shape = <<>> THEN 0
    ELSE Head(ix) + Head(shape) * OffsetF(Tail(shape), Tail(ix))

UnravelF(shape, i) ==
    [a \in 1..Len(shape) |-> (i \div Prod(SubSeq(shape, 1, a - 1))) % shape[a]]

\* T.reshape(newshape, order='F'): elements read and placed first axis fastest.
Reshape_F(T, newshape) ==
    [shape |-> newshape,
     data  |-> [i \in DOMAIN T.data |->
                    At(T, UnravelF(T.shape, OffsetF(newshape, Unravel(newshape, i))))]]

\* T.reshape(newshape): the same buffer under another shape.
CanReshape(T, newshape) ==
    /\ \A a \in 1..Len(newshape) : newshape[a] >= 0
    /\ Prod(newshape) = Prod(T.shape)

Reshape(T, newshape) == [shape |-> newshape, data |-> T.data]

\* np.squeeze: every axis of length 1 is dropped.
IsNotOne(s) == s # 1

Squeeze(T) == [shape |-> SelectSeq(T.shape, IsNotOne), data |-> T.data]

\* X[a1, ..., am] with m integer index arrays of one shape S: the result has
\* shape S ++ X.shape[m:], and element (pos, rest) is X[a1[pos], ..., am[pos], rest].
\* An index v in -n..-1 addresses v + n; anything outside -n..n-1 is an IndexError.
IndexOk(T, ixs) ==
    \A a \in 1..Len(ixs) :
        { i \in DOMAIN ixs[a].data :
            \/ ixs[a].data[i] < -T.shape[a]
            \/ ixs[a].data[i] > T.shape[a] - 1 } = {}

Wrap(v, n) == IF v < 0 THEN v + n ELSE v

\* A gather that reads every axis through the first index array.
Take_first(T, ixs) ==
    LET m     == Len(ixs)
        S     == ixs[1].shape
        shape == S \o SubSeq(T.shape, m + 1, Len(T.shape))
    IN [shape |-> shape,
        data  |-> [i \in 0..(Prod(shape) - 1) |->
            LET full == Unravel(shape, i)
                pos  == SubSeq(full, 1, Len(S))
                rest == SubSeq(full, Len(S) + 1, Len(shape))
                lead == [a \in 1..m |-> At(ixs[1], pos) % T.shape[a]]
            IN At(T, lead \o rest)]]

Take(T, ixs) ==
    LET m     == Len(ixs)
        S     == ixs[1].shape
        shape == S \o SubSeq(T.shape, m + 1, Len(T.shape))
    IN [shape |-> shape,
        data  |-> [i \in 0..(Prod(shape) - 1) |->
            LET full == Unravel(shape, i)
                pos  == SubSeq(full, 1, Len(S))
                rest == SubSeq(full, Len(S) + 1, Len(shape))
                lead == [a \in 1..m |-> Wrap(At(ixs[a], pos), T.shape[a])]
            IN At(T, lead \o rest)]]

\* np.dot(A, B) for a 2-D A and a 2-D or 1-D B: the last axis of A is summed
\* against the first axis of B, which must have the same length.
CanDot(A, B) ==
    /\ Len(A.shape) = 2
    /\ Len(B.shape) \in {1, 2}
    /\ A.shape[2] = B.shape[1]

\* DotEntry that multiplies by B's first column whatever j is.
DotEntry_first(A, B, p, j) ==
    SumSeq([c \in 1..A.shape[2] |->
        At(A, <<p, c - 1>>) *
        (IF Len(B.shape) = 1 THEN At(B, <<c - 1>>) ELSE At(B, <<c - 1, 0>>))])

DotEntry(A, B, p, j) ==
    SumSeq([c \in 1..A.shape[2] |->
        At(A, <<p, c - 1>>) *
        (IF Len(B.shape) = 1 THEN At(B, <<c - 1>>) ELSE At(B, <<c - 1, j>>))])

\* Dot that returns a column (P, 1) for a 1-D B, where np.dot returns (P,).
Dot_column(A, B) ==
    LET P     == A.shape[1]
        o     == IF Len(B.shape) = 1 THEN 1 ELSE B.shape[2]
    IN [shape |-> <<P, o>>,
        data  |-> [i \in 0..(P * o - 1) |->
            SumSeq([c \in 1..A.shape[2] |->
                At(A, <<i \div o, c - 1>>) *
                (IF Len(B.shape) = 1 THEN At(B, <<c - 1>>)
                 ELSE At(B, <<c - 1, i % o>>))])]]

Dot(A, B) ==
    LET P     == A.shape[1]
        shape == IF Len(B.shape) = 1 THEN <<P>> ELSE <<P, B.shape[2]>>
        o     == IF Len(B.shape) = 1 THEN 1 ELSE B.shape[2]
    IN [shape |-> shape,
        data  |-> [i \in 0..(Prod(shape) - 1) |-> DotEntry(A, B, i \div o, i % o)]]

----------------------------------------------------------------------------
(* The double-sum reference. *)

\* The loop reading f forwards, f[n + m] * g[m]: no reversal of g.
RECURSIVE conv_loop_forward(_, _, _, _, _, _)
conv_loop_forward(ff, gg, n, m, M, res) ==
    IF m > M THEN res
    ELSE conv_loop_forward(ff, gg, n, m + 1, M, res + ff[n + m] * gg[m])

RECURSIVE conv_loop(_, _, _, _, _, _)
conv_loop(ff, gg, n, m, M, res) ==
    IF m > M THEN res
    ELSE conv_loop(ff, gg, n, m + 1, M, res + ff[n - m] * gg[m])

\* conv_func with the loop written range(-M, M): the last term is left out.
conv_func_short(ff, gg, n) ==
    LET M == Cardinality(DOMAIN gg) \div 2
    IN conv_loop(ff, gg, n, -M, M - 1, 0)

\* The keys the loop of conv_func reads, in the order it reads them: the pair
\* (n - m, m) of the term f[n - m] * g[m], for m in range(-M, M + 1, 1).
RECURSIVE conv_reads(_, _, _)
conv_reads(n, m, M) ==
    IF m > M THEN <<>>
    ELSE <<(<<n - m, m>>)>> \o conv_reads(n, m + 1, M)

conv_func(ff, gg, n) ==
    LET M == Cardinality(DOMAIN gg) \div 2
    IN conv_loop(ff, gg, n, -M, M, 0)

----------------------------------------------------------------------------
(* The notebook's literal arrays. *)

\* cell 2
f_nb == (-1 :> 0) @@ (0 :> 1) @@ (1 :> 2) @@ (2 :> -1) @@ (3 :> 1) @@ (4 :> -3) @@ (5 :> 0)

g_nb == (-1 :> -1) @@ (0 :> 0) @@ (1 :> 1)

\* One Spatial Dimension, One Feature
X_1d == Transpose(Array2(<< <<0, 1, 2, -1, 1, -3, 0>> >>))

\* W listing g's values in key order, [-1, 0, 1].
W_1d_unreversed == Transpose(Array2(<< <<-1, 0, 1>> >>))

W_1d == Transpose(Array2(<< <<1, 0, -1>> >>))

\* ix with a slip in its last entry.
ix_slip == Array2(<< <<0, 1, 2>>,
                     <<1, 2, 3>>,
                     <<2, 3, 4>>,
                     <<3, 4, 5>>,
                     <<4, 5, 5>> >>)

ix == Array2(<< <<0, 1, 2>>,
                <<1, 2, 3>>,
                <<2, 3, 4>>,
                <<3, 4, 5>>,
                <<4, 5, 6>> >>)

\* One Spatial Dimension, Multiple Features
X_1dm == Transpose(Array2(<< <<0, 1, 2, -1, 1, -3, 0>>,
                             <<1, 3, -2, 2, 0, 1, -1>> >>))

W_1dm == Transpose(Array2(<< <<1, 0, -1>>,
                             <<-1, 0, 1>> >>))

\* ps_ix with its columns feature-major: the three positions, twice.
ps_ix_feature_major == Array2(<< <<0, 1, 2, 0, 1, 2>>,
                                 <<1, 2, 3, 1, 2, 3>>,
                                 <<2, 3, 4, 2, 3, 4>>,
                                 <<3, 4, 5, 3, 4, 5>>,
                                 <<4, 5, 6, 4, 5, 6>> >>)

ps_ix == Array2(<< <<0, 0, 1, 1, 2, 2>>,
                   <<1, 1, 2, 2, 3, 3>>,
                   <<2, 2, 3, 3, 4, 4>>,
                   <<3, 3, 4, 4, 5, 5>>,
                   <<4, 4, 5, 5, 6, 6>> >>)

\* ft_ix with every entry 0: each column reads the first feature.
ft_ix_zero == Array2(<< <<0, 0, 0, 0, 0, 0>>,
                        <<0, 0, 0, 0, 0, 0>>,
                        <<0, 0, 0, 0, 0, 0>>,
                        <<0, 0, 0, 0, 0, 0>>,
                        <<0, 0, 0, 0, 0, 0>> >>)

ft_ix == Array2(<< <<0, 1, 0, 1, 0, 1>>,
                   <<0, 1, 0, 1, 0, 1>>,
                   <<0, 1, 0, 1, 0, 1>>,
                   <<0, 1, 0, 1, 0, 1>>,
                   <<0, 1, 0, 1, 0, 1>> >>)

\* Multiple Spatial Dimensions, One Feature (the values np.random drew)
X_2d == Array2(<< << 0, -3, -2, -1,  0>>,
                  <<-3,  2, -3, -3,  1>>,
                  << 1,  0, -2, -2,  0>>,
                  << 1, -1,  0, -1, -2>>,
                  << 0, -3,  0,  1, -2>> >>)

W_2d == Array2(<< <<-2,  2,  2>>,
                  <<-2, -3, -1>>,
                  << 0,  1,  1>> >>)

\* h_ix with its last entry one row below the input.
h_ix_below == Array2(<< <<0, 0, 0, 1, 1, 1, 2, 2, 2>>,
                        <<0, 0, 0, 1, 1, 1, 2, 2, 2>>,
                        <<0, 0, 0, 1, 1, 1, 2, 2, 2>>,
                        <<1, 1, 1, 2, 2, 2, 3, 3, 3>>,
                        <<1, 1, 1, 2, 2, 2, 3, 3, 3>>,
                        <<1, 1, 1, 2, 2, 2, 3, 3, 3>>,
                        <<2, 2, 2, 3, 3, 3, 4, 4, 4>>,
                        <<2, 2, 2, 3, 3, 3, 4, 4, 4>>,
                        <<2, 2, 2, 3, 3, 3, 4, 4, 5>> >>)

h_ix == Array2(<< <<0, 0, 0, 1, 1, 1, 2, 2, 2>>,
                  <<0, 0, 0, 1, 1, 1, 2, 2, 2>>,
                  <<0, 0, 0, 1, 1, 1, 2, 2, 2>>,
                  <<1, 1, 1, 2, 2, 2, 3, 3, 3>>,
                  <<1, 1, 1, 2, 2, 2, 3, 3, 3>>,
                  <<1, 1, 1, 2, 2, 2, 3, 3, 3>>,
                  <<2, 2, 2, 3, 3, 3, 4, 4, 4>>,
                  <<2, 2, 2, 3, 3, 3, 4, 4, 4>>,
                  <<2, 2, 2, 3, 3, 3, 4, 4, 4>> >>)

\* w_ix holding the row indices again.
w_ix_rows == h_ix

w_ix == Array2(<< <<0, 1, 2, 0, 1, 2, 0, 1, 2>>,
                  <<1, 2, 3, 1, 2, 3, 1, 2, 3>>,
                  <<2, 3, 4, 2, 3, 4, 2, 3, 4>>,
                  <<0, 1, 2, 0, 1, 2, 0, 1, 2>>,
                  <<1, 2, 3, 1, 2, 3, 1, 2, 3>>,
                  <<2, 3, 4, 2, 3, 4, 2, 3, 4>>,
                  <<0, 1, 2, 0, 1, 2, 0, 1, 2>>,
                  <<1, 2, 3, 1, 2, 3, 1, 2, 3>>,
                  <<2, 3, 4, 2, 3, 4, 2, 3, 4>> >>)

\* Multiple Spatial Dimensions, Multiple Features: the two channel planes of
\* X and of W as the notebook displays them, X.transpose((2, 0, 1)).
X_2dm_planes == << << <<-3,  1,  1,  0,  1>>,
                      <<-2,  2, -2,  0, -3>>,
                      <<-1, -2, -2,  0, -1>>,
                      << 1,  2,  2,  1,  0>>,
                      <<-1, -1,  0,  1,  0>> >>,
                   << <<-1, -3,  2, -3,  0>>,
                      <<-3,  1, -1,  2,  0>>,
                      << 0,  2,  2, -1,  2>>,
                      << 2, -3, -3,  0,  1>>,
                      <<-2, -3,  0,  1,  2>> >> >>

W_2dm_planes == << << <<-2,  1,  1>>,
                      <<-1,  1,  0>>,
                      << 2, -2, -3>> >>,
                   << <<-3,  1,  1>>,
                      <<-1,  0,  0>>,
                      << 2, -2, -1>> >> >>

\* The (h, w, ch) array whose display planes[ch][h][w] is.
FromPlanes(planes) ==
    LET d  == Len(planes)
        nh == Len(planes[1])
        nw == Len(planes[1][1])
    IN [shape |-> <<nh, nw, d>>,
        data  |-> [i \in 0..(nh * nw * d - 1) |->
            planes[(i % d) + 1][((i \div d) \div nw) + 1][((i \div d) % nw) + 1]]]

X_2dm == FromPlanes(X_2dm_planes)

W_2dm == FromPlanes(W_2dm_planes)

h_ix2 == Array2(<< <<0, 0, 0, 0, 0, 0, 1, 1, 1, 1, 1, 1, 2, 2, 2, 2, 2, 2>>,
                   <<0, 0, 0, 0, 0, 0, 1, 1, 1, 1, 1, 1, 2, 2, 2, 2, 2, 2>>,
                   <<0, 0, 0, 0, 0, 0, 1, 1, 1, 1, 1, 1, 2, 2, 2, 2, 2, 2>>,
                   <<1, 1, 1, 1, 1, 1, 2, 2, 2, 2, 2, 2, 3, 3, 3, 3, 3, 3>>,
                   <<1, 1, 1, 1, 1, 1, 2, 2, 2, 2, 2, 2, 3, 3, 3, 3, 3, 3>>,
                   <<1, 1, 1, 1, 1, 1, 2, 2, 2, 2, 2, 2, 3, 3, 3, 3, 3, 3>>,
                   <<2, 2, 2, 2, 2, 2, 3, 3, 3, 3, 3, 3, 4, 4, 4, 4, 4, 4>>,
                   <<2, 2, 2, 2, 2, 2, 3, 3, 3, 3, 3, 3, 4, 4, 4, 4, 4, 4>>,
                   <<2, 2, 2, 2, 2, 2, 3, 3, 3, 3, 3, 3, 4, 4, 4, 4, 4, 4>> >>)

w_ix2 == Array2(<< <<0, 0, 1, 1, 2, 2, 0, 0, 1, 1, 2, 2, 0, 0, 1, 1, 2, 2>>,
                   <<1, 1, 2, 2, 3, 3, 1, 1, 2, 2, 3, 3, 1, 1, 2, 2, 3, 3>>,
                   <<2, 2, 3, 3, 4, 4, 2, 2, 3, 3, 4, 4, 2, 2, 3, 3, 4, 4>>,
                   <<0, 0, 1, 1, 2, 2, 0, 0, 1, 1, 2, 2, 0, 0, 1, 1, 2, 2>>,
                   <<1, 1, 2, 2, 3, 3, 1, 1, 2, 2, 3, 3, 1, 1, 2, 2, 3, 3>>,
                   <<2, 2, 3, 3, 4, 4, 2, 2, 3, 3, 4, 4, 2, 2, 3, 3, 4, 4>>,
                   <<0, 0, 1, 1, 2, 2, 0, 0, 1, 1, 2, 2, 0, 0, 1, 1, 2, 2>>,
                   <<1, 1, 2, 2, 3, 3, 1, 1, 2, 2, 3, 3, 1, 1, 2, 2, 3, 3>>,
                   <<2, 2, 3, 3, 4, 4, 2, 2, 3, 3, 4, 4, 2, 2, 3, 3, 4, 4>> >>)

ft_ix2 == Array2(<< <<0, 1, 0, 1, 0, 1, 0, 1, 0, 1, 0, 1, 0, 1, 0, 1, 0, 1>>,
                    <<0, 1, 0, 1, 0, 1, 0, 1, 0, 1, 0, 1, 0, 1, 0, 1, 0, 1>>,
                    <<0, 1, 0, 1, 0, 1, 0, 1, 0, 1, 0, 1, 0, 1, 0, 1, 0, 1>>,
                    <<0, 1, 0, 1, 0, 1, 0, 1, 0, 1, 0, 1, 0, 1, 0, 1, 0, 1>>,
                    <<0, 1, 0, 1, 0, 1, 0, 1, 0, 1, 0, 1, 0, 1, 0, 1, 0, 1>>,
                    <<0, 1, 0, 1, 0, 1, 0, 1, 0, 1, 0, 1, 0, 1, 0, 1, 0, 1>>,
                    <<0, 1, 0, 1, 0, 1, 0, 1, 0, 1, 0, 1, 0, 1, 0, 1, 0, 1>>,
                    <<0, 1, 0, 1, 0, 1, 0, 1, 0, 1, 0, 1, 0, 1, 0, 1, 0, 1>>,
                    <<0, 1, 0, 1, 0, 1, 0, 1, 0, 1, 0, 1, 0, 1, 0, 1, 0, 1>> >>)

\* Multiple filters: W as np.random drew it, already (3*3*2, 2)
W_multi == Array2(<< <<-2,  0>>, << 1, -1>>, << 2, -3>>, << 1, -2>>, <<-3,  2>>,
                     <<-1, -1>>, << 0,  0>>, <<-2, -1>>, <<-3,  1>>, << 0,  0>>,
                     << 2, -1>>, << 1, -3>>, <<-3, -3>>, <<-2,  1>>, <<-2, -3>>,
                     << 2,  0>>, <<-2,  1>>, << 1,  2>> >>)

----------------------------------------------------------------------------
(* The window-index enumeration. *)

\* The index tuples of nested loops "for i1 in range(e1): for i2 in range(e2): ...",
\* in the order the loops visit them.
RECURSIVE Loops(_, _)
RECURSIVE LoopFrom(_, _, _, _)
Loops(extents, prefix) ==
    IF extents = <<>> THEN <<prefix>>
    ELSE LoopFrom(0, Head(extents), Tail(extents), prefix)

LoopFrom(i, hi, rest, prefix) ==
    IF i >= hi THEN <<>>
    ELSE Loops(rest, Append(prefix, i)) \o LoopFrom(i + 1, hi, rest, prefix)

\* Step 1: the window anchors, row-major over the spatial axes.
Anchors(n, k) == Loops([a \in 1..Len(n) |-> n[a] - k[a] + 1], <<>>)

\* Step 2: the window's own offsets, spatial-major and channel-minor.
Columns(k, d) == Loops(k \o <<d>>, <<>>)

\* Step 3: for each (p, c) the absolute input coordinate, one array per axis.
build_window_indices(n, k, d) ==
    LET anchors == Anchors(n, k)
        cols    == Columns(k, d)
        P       == Len(anchors)
        K       == Len(cols)
        rank    == Len(n)
    IN [a \in 1..(rank + 1) |->
         [shape |-> <<P, K>>,
          data  |-> [i \in 0..(P * K - 1) |->
              IF a <= rank
              THEN anchors[(i \div K) + 1][a] + cols[(i % K) + 1][a]
              ELSE cols[(i % K) + 1][a]]]]

----------------------------------------------------------------------------
(* The computations. *)

Examples == {"1d1f", "1dmf", "2d1f", "2dmf", "multi"}

Geom(rank, n, k, d, o) == [rank |-> rank, n |-> n, k |-> k, d |-> d, o |-> o]

\* The geometry, input and filter of a worked example.
ExampleGeom(e) ==
    CASE e = "1d1f"  -> Geom(1, <<7>>, <<3>>, 1, 0)
      [] e = "1dmf"  -> Geom(1, <<7>>, <<3>>, 2, 0)
      [] e = "2d1f"  -> Geom(2, <<5, 5>>, <<3, 3>>, 1, 0)
      [] e = "2dmf"  -> Geom(2, <<5, 5>>, <<3, 3>>, 2, 0)
      [] e = "multi" -> Geom(2, <<5, 5>>, <<3, 3>>, 2, 2)

ExampleX(e) ==
    CASE e = "1d1f"  -> X_1d
      [] e = "1dmf"  -> X_1dm
      [] e = "2d1f"  -> X_2d
      [] e = "2dmf"  -> X_2dm
      [] e = "multi" -> X_2dm

ExampleW(e) ==
    CASE e = "1d1f"  -> W_1d
      [] e = "1dmf"  -> W_1dm
      [] e = "2d1f"  -> W_2d
      [] e = "2dmf"  -> W_2dm
      [] e = "multi" -> W_multi

\* The shape of each example's W = W.reshape(...).
ExampleFlatShape(e) ==
    CASE e = "1dmf"  -> <<6, 1>>
      [] e = "2d1f"  -> <<9, 1>>
      [] e = "2dmf"  -> <<18, 1>>

\* The index arrays each example writes out.
ExampleIndices(e) ==
    CASE e = "1d1f"  -> <<ix>>
      [] e = "1dmf"  -> <<ps_ix, ft_ix>>
      [] e = "2d1f"  -> <<h_ix, w_ix>>
      [] e = "2dmf"  -> <<h_ix2, w_ix2, ft_ix2>>
      [] e = "multi" -> <<h_ix2, w_ix2, ft_ix2>>

\* The shape of each example's out.reshape(...).
ExampleOutShape(e) ==
    CASE e = "2d1f"  -> <<3, 3>>
      [] e = "2dmf"  -> <<3, 3>>
      [] e = "multi" -> <<3, 3, 2>>

\* Generated values, as np.random.randint(-3, 3, ...) draws them: element i of
\* draw number s, an integer in -3..2.
Draw(s, i) == ((((i + 1) * (i + 1) * (i + s) + 5 * s * i + s) % 37) % 6) - 3

GenX(gm, s) ==
    LET shape == gm.n \o <<gm.d>>
    IN [shape |-> shape, data |-> [i \in 0..(Prod(shape) - 1) |-> Draw(2 * s - 1, i)]]

GenW(gm, s) ==
    LET shape == gm.k \o <<gm.d>> \o (IF gm.o = 0 THEN <<>> ELSE <<gm.o>>)
    IN [shape |-> shape, data |-> [i \in 0..(Prod(shape) - 1) |-> Draw(2 * s, i)]]

\* The geometries of the generated computations: 1 <= k_i <= n_i.
GenGeoms ==
    { Geom(1, <<n>>, <<k>>, d, o) :
        n \in 1..MaxLen, k \in 1..MaxLen, d \in 1..MaxD, o \in 0..MaxO }
    \cup
    { Geom(2, <<n[1], n[2]>>, <<k[1], k[2]>>, d, o) :
        n \in (1..MaxSide) \X (1..MaxSide), k \in (1..MaxSide) \X (1..MaxSide),
        d \in 1..MaxD, o \in 0..MaxO }

ValidGeom(gm) == \A a \in 1..gm.rank : gm.k[a] >= 1 /\ gm.k[a] <= gm.n[a]

\* A generated computation has the double-sum reference when it is the case
\* cnv is written for: one spatial axis, one channel, one filter, odd length.
HasRef(gm) == gm.rank = 1 /\ gm.d = 1 /\ gm.o <= 1 /\ gm.k[1] % 2 = 1

HalfWidth(gm) == gm.k[1] \div 2

\* f and g for a generated X and W, related as the notebook's f to X and g to W:
\* X lists f's values from key -M on, W lists g's values from key M down.
DictF(x, M) == [j \in (-M)..(x.shape[1] - M - 1) |-> x.data[j + M]]

DictG(w, M) == [m \in (-M)..M |-> w.data[M - m]]

NoDict == [j \in 0..-1 |-> 0]

Init ==
    /\ ref = NoDict
    /\ idx = <<>>
    /\ Xhat = NoArray
    /\ Z = NoArray
    /\ out = NoArray
    /\ \/ /\ ex \in Examples
          /\ geom = ExampleGeom(ex)
          /\ X = ExampleX(ex)
          /\ W = ExampleW(ex)
          /\ f = IF ex = "1d1f" THEN f_nb ELSE NoDict
          /\ g = IF ex = "1d1f" THEN g_nb ELSE NoDict
          /\ Wf = IF ex \in {"1d1f", "multi"} THEN W ELSE NoArray
          /\ pc = CASE ex = "1d1f"  -> "cnv"
                    [] ex = "multi" -> "flattened"
                    [] OTHER        -> "input"
       \/ /\ ex = "gen"
          /\ geom \in {gm \in GenGeoms : ValidGeom(gm)}
          /\ \E s \in 1..NumPat :
                /\ X = GenX(geom, s)
                /\ W = GenW(geom, s)
          /\ f = IF HasRef(geom) THEN DictF(X, HalfWidth(geom)) ELSE NoDict
          /\ g = IF HasRef(geom) THEN DictG(W, HalfWidth(geom)) ELSE NoDict
          /\ Wf = NoArray
          /\ pc = IF HasRef(geom) THEN "cnv" ELSE "input"

\* for n in [0, 1, 2, 3, 4]: print((f |cnv| g)(n))
CnvPositions == 0..(Cardinality(DOMAIN f) - Cardinality(DOMAIN g))

Cnv ==
    /\ pc = "cnv"
    /\ ref' = [n \in CnvPositions |-> conv_func(f, g, n)]
    /\ pc' = IF ex = "1d1f" THEN "flattened" ELSE "input"
    /\ UNCHANGED <<ex, geom, f, g, X, W, Wf, idx, Xhat, Z, out>>

\* W = W.reshape((K, 1)); (K,) or (K, o) for a generated filter
FlatShape(e, gm) ==
    IF e \in Examples THEN ExampleFlatShape(e)
    ELSE IF gm.o = 0 THEN <<Prod(gm.k) * gm.d>>
    ELSE <<Prod(gm.k) * gm.d, gm.o>>

FlattenFilter ==
    /\ pc = "input"
    /\ CanReshape(W, FlatShape(ex, geom))
    /\ Wf' = Reshape(W, FlatShape(ex, geom))
    /\ pc' = "flattened"
    /\ UNCHANGED <<ex, geom, f, g, ref, X, W, idx, Xhat, Z, out>>

\* ix = np.array([...]), h_ix = ..., w_ix = ..., ft_ix = ...
LiteralIndices ==
    /\ pc = "flattened"
    /\ ex \in Examples
    /\ idx' = ExampleIndices(ex)
    /\ pc' = "indexed"
    /\ UNCHANGED <<ex, geom, f, g, ref, X, W, Wf, Xhat, Z, out>>

BuildIndices ==
    /\ pc = "flattened"
    /\ ex = "gen"
    /\ idx' = build_window_indices(geom.n, geom.k, geom.d)
    /\ pc' = "indexed"
    /\ UNCHANGED <<ex, geom, f, g, ref, X, W, Wf, Xhat, Z, out>>

\* Xhat = np.squeeze(X[ix])
GatherSqueeze ==
    /\ pc = "indexed"
    /\ ex = "1d1f"
    /\ IndexOk(X, idx)
    /\ Xhat' = Squeeze(Take(X, idx))
    /\ pc' = "gathered"
    /\ UNCHANGED <<ex, geom, f, g, ref, X, W, Wf, idx, Z, out>>

\* Xhat = X[ps_ix, ft_ix]; X[h_ix, w_ix]; X[h_ix, w_ix, ft_ix]
Gather ==
    /\ pc = "indexed"
    /\ ex # "1d1f"
    /\ IndexOk(X, idx)
    /\ Xhat' = Take(X, idx)
    /\ pc' = "gathered"
    /\ UNCHANGED <<ex, geom, f, g, ref, X, W, Wf, idx, Z, out>>

\* Z = np.dot(Xhat, W)
Multiply ==
    /\ pc = "gathered"
    /\ CanDot(Xhat, Wf)
    /\ Z' = Dot(Xhat, Wf)
    /\ pc' = "multiplied"
    /\ UNCHANGED <<ex, geom, f, g, ref, X, W, Wf, idx, Xhat, out>>

\* out.reshape((3, 3)); out.reshape((3, 3, 2)); the one-axis examples print Z as it is
OutShape(e, gm) ==
    IF e \in Examples THEN ExampleOutShape(e)
    ELSE [a \in 1..gm.rank |-> gm.n[a] - gm.k[a] + 1]
         \o (IF gm.o = 0 THEN <<>> ELSE <<gm.o>>)

\* The final reshape filling the output in column-major order.
ReshapeOut_F ==
    /\ pc = "multiplied"
    /\ ex \notin {"1d1f", "1dmf"}
    /\ CanReshape(Z, OutShape(ex, geom))
    /\ out' = Reshape_F(Z, OutShape(ex, geom))
    /\ pc' = "reshaped"
    /\ UNCHANGED <<ex, geom, f, g, ref, X, W, Wf, idx, Xhat, Z>>

ReshapeOut ==
    /\ pc = "multiplied"
    /\ ex \notin {"1d1f", "1dmf"}
    /\ CanReshape(Z, OutShape(ex, geom))
    /\ out' = Reshape(Z, OutShape(ex, geom))
    /\ pc' = "reshaped"
    /\ UNCHANGED <<ex, geom, f, g, ref, X, W, Wf, idx, Xhat, Z>>

\* The whole computation on an input x and a filter w, statement after
\* statement as the actions above perform it: the result of the last one.
Indices(e, gm) ==
    IF e \in Examples THEN ExampleIndices(e)
    ELSE build_window_indices(gm.n, gm.k, gm.d)

Unfold(e, gm, x) ==
    IF e = "1d1f" THEN Squeeze(Take(x, Indices(e, gm)))
    ELSE Take(x, Indices(e, gm))

Flat(e, gm, w) ==
    IF e \in {"1d1f", "multi"} THEN w ELSE Reshape(w, FlatShape(e, gm))

convolve(e, gm, x, w) ==
    LET z == Dot(Unfold(e, gm, x), Flat(e, gm, w))
    IN IF e \in {"1d1f", "1dmf"} THEN z ELSE Reshape(z, OutShape(e, gm))

Next ==
    \/ Cnv
    \/ FlattenFilter
    \/ LiteralIndices
    \/ BuildIndices
    \/ GatherSqueeze
    \/ Gather
    \/ Multiply
    \/ ReshapeOut

Spec == Init /\ [][Next]_vars

----------------------------------------------------------------------------
(* Properties. *)

Finished == pc = (IF ex \in {"1d1f", "1dmf"} THEN "multiplied" ELSE "reshaped")

\* The result of the run: out, or Z where the notebook does not reshape.
Result == IF ex \in {"1d1f", "1dmf"} THEN Z ELSE out

\* The statements of a run compute what convolve computes in one expression.
PipelineIsConvolve == Finished => Result = convolve(ex, geom, X, W)

\* The run has the double-sum reference, and cnv has been evaluated.
RefDone == g # NoDict /\ pc # "cnv"

\* The filter array that lists g's values in key order, -M first.
FilterOfDict(gg, shape) ==
    LET M == Cardinality(DOMAIN gg) \div 2
    IN [shape |-> shape, data |-> [c \in 0..(2 * M) |-> gg[c - M]]]

\* g with its values in reversed key order.
Reversed(gg) == [m \in DOMAIN gg |-> gg[-m]]

\* C1 as stated: for every padded 1D integer input f and every odd-length
\* filter g, convolve(padded f, g), the unfolded matrix times the filter g
\* flattened in its own order, equals the double-sum reference
\* sum_m f[n-m]*g[m] at every valid position n.
C1_ConvolveWithGEqualsReference ==
    RefDone =>
        \A n \in DOMAIN ref :
            convolve(ex, geom, X, FilterOfDict(g, W.shape)).data[n] = ref[n]

\* C1 amended: the product equals the reference when the filter multiplied is
\* g in reversed key order (W[c] = g[M - c], as the notebook's W = [1, 0, -1]
\* is to g = [-1, 0, 1]): then Z[n] = sum_m f[n-m]*g[m] at every valid n.
C1_ConvolveWithReversedGEqualsReference ==
    (RefDone /\ pc \in {"multiplied", "reshaped"}) =>
        /\ W.data = FilterOfDict(Reversed(g), W.shape).data
        /\ DOMAIN ref = 0..(Z.shape[1] - 1)
        /\ \A n \in DOMAIN ref : Z.data[n] = ref[n]

\* C1 witness: a finished run with a reference, a filter of half-width 1 that
\* is not its own reverse, and more than one output position.
C1_Witness ==
    /\ RefDone
    /\ pc = "multiplied"
    /\ Cardinality(DOMAIN g) = 3
    /\ g # Reversed(g)
    /\ Z.shape[1] > 1
    /\ ex = "gen"

----------------------------------------------------------------------------

\* Number of window positions and flattened window size of a geometry.
WindowCount(gm) == Prod([a \in 1..gm.rank |-> gm.n[a] - gm.k[a] + 1])

WindowSize(gm) == Prod(gm.k) * gm.d

SpatialShape(gm) == [a \in 1..gm.rank |-> gm.n[a] - gm.k[a] + 1]

\* The filter as given has a trailing output-filter axis (the multiple-filters
\* example creates its filter flattened, 18 x 2).
FilterHasAxis == IF ex = "multi" THEN Len(W.shape) = 2 ELSE Len(W.shape) = geom.rank + 2

LastAxis(T, j) ==
    LET o     == T.shape[Len(T.shape)]
        shape == SubSeq(T.shape, 1, Len(T.shape) - 1)
    IN [shape |-> shape, data |-> [i \in 0..(Prod(shape) - 1) |-> T.data[i * o + j]]]

\* The computation with only filter j of a batched filter.
ConvolveOne(e, gm, x, w, j) ==
    IF e = "multi"
    THEN Reshape(Dot(Unfold(e, gm, x), LastAxis(w, j)), ExampleOutShape("2dmf"))
    ELSE convolve(e, [gm EXCEPT !.o = 0], x, LastAxis(w, j))

\* C3: for every input X and every filter W that stacks o filters along a
\* trailing axis, convolve(X, W)[..., j] = convolve(X, W[..., j]) for each
\* j in 0..o-1.
C3_BatchingLaw ==
    (pc = "reshaped" /\ FilterHasAxis) =>
        \A j \in 0..(geom.o - 1) :
            LastAxis(out, j) = ConvolveOne(ex, geom, X, W, j)

\* C3 witness: a finished run with two stacked filters whose results differ.
C3_Witness ==
    /\ pc = "reshaped"
    /\ FilterHasAxis
    /\ geom.o = 2
    /\ geom.d = 2
    /\ geom.rank = 2
    /\ WindowCount(geom) > 1
    /\ LastAxis(out, 0) # LastAxis(out, 1)

----------------------------------------------------------------------------

\* Size of the filter's trailing output-filter axis, 1 when it has none.
TrailingSize(e, gm) == IF gm.o = 0 THEN 1 ELSE gm.o

\* The filter w with the weights of every channel but c0 set to 0.
MaskChannel(w, d, oo, c0) ==
    [shape |-> w.shape,
     data  |-> [i \in DOMAIN w.data |->
                    IF (i \div oo) % d = c0 THEN w.data[i] ELSE 0]]

\* Channel c0 alone of an array whose channel axis has length d and is
\* followed by oo elements, under the given shape.
PickChannel(t, d, oo, c0, shape) ==
    [shape |-> shape,
     data  |-> [i \in 0..(Prod(shape) - 1) |->
                    t.data[((i \div oo) * d + c0) * oo + (i % oo)]]]

Front(s) == SubSeq(s, 1, Len(s) - 1)

\* The single-channel computation on channel c0 of x and w: for the
\* two-feature examples it is the one-feature example's computation.
SingleChannel(e, gm, x, w, c0) ==
    CASE e = "1dmf" ->
            convolve("1d1f", ExampleGeom("1d1f"),
                     PickChannel(x, gm.d, 1, c0, Front(x.shape) \o <<1>>),
                     PickChannel(w, gm.d, 1, c0, Front(w.shape) \o <<1>>))
      [] e = "2dmf" ->
            convolve("2d1f", ExampleGeom("2d1f"),
                     PickChannel(x, gm.d, 1, c0, Front(x.shape)),
                     PickChannel(w, gm.d, 1, c0, Front(w.shape)))
      [] e = "gen" ->
            convolve("gen", [gm EXCEPT !.d = 1],
                     PickChannel(x, gm.d, 1, c0, gm.n \o <<1>>),
                     PickChannel(w, gm.d, TrailingSize(e, gm), c0,
                                 gm.k \o <<1>> \o (IF gm.o = 0 THEN <<>> ELSE <<gm.o>>)))

\* C4: for every multi-channel input X and every filter that is zero on all
\* channels but c0, convolve(X, filter) equals the single-channel convolution
\* of X[..., c0] with filter[..., c0]; and in general the output sums the
\* products over all d channels as well as over the window: it is the sum
\* over the channels of the single-channel convolutions.
C4_ChannelAggregation ==
    (Finished /\ ex \in {"1dmf", "2dmf", "gen"}) =>
        /\ \A c0 \in 0..(geom.d - 1) :
              convolve(ex, geom, X,
                       MaskChannel(W, geom.d, TrailingSize(ex, geom), c0))
                  = SingleChannel(ex, geom, X, W, c0)
        /\ \A i \in DOMAIN Result.data :
              Result.data[i] =
                  SumSeq([c \in 1..geom.d |->
                              SingleChannel(ex, geom, X, W, c - 1).data[i]])

\* C4 witness: a finished run on two channels whose single-channel
\* convolutions differ and are not zero.
C4_Witness ==
    /\ Finished
    /\ ex = "gen"
    /\ geom.d = 2
    /\ geom.rank = 2
    /\ WindowCount(geom) > 1
    /\ SingleChannel(ex, geom, X, W, 0) # SingleChannel(ex, geom, X, W, 1)
    /\ \E i \in DOMAIN Result.data :
          /\ SingleChannel(ex, geom, X, W, 0).data[i] # 0
          /\ SingleChannel(ex, geom, X, W, 1).data[i] # 0

----------------------------------------------------------------------------

Indexed == pc \in {"indexed", "gathered", "multiplied", "reshaped"}

\* Window extents per spatial axis, and the anchor and offset tuples in the
\* closed form of the claim: axis a of row p, axis a of column c.
AnchorOf(gm, p, a) ==
    (p \div Prod(SubSeq(SpatialShape(gm), a + 1, gm.rank))) % SpatialShape(gm)[a]

OffsetOf(gm, c, a) ==
    ((c \div gm.d) \div Prod(SubSeq(gm.k, a + 1, gm.rank))) % gm.k[a]

ChannelOf(gm, c) == c % gm.d

\* C6: for every valid geometry, with anchors in row-major order
\* (p = i*(n_w-k_w+1) + j) and columns spatial-major, channel-minor
\* (c = (a*k_w + b)*d + ch), every entry of the index arrays is anchor plus
\* window offset per spatial axis, and the channel index:
\* h_idx[p,c] = i + a, w_idx[p,c] = j + b, ch_idx[p,c] = ch.
C6_WindowIndexInvariant ==
    Indexed =>
        \A p \in 0..(WindowCount(geom) - 1) :
            \A c \in 0..(WindowSize(geom) - 1) :
                \A a \in 1..Len(idx) :
                    At(idx[a], <<p, c>>) =
                        IF a <= geom.rank
                        THEN AnchorOf(geom, p, a) + OffsetOf(geom, c, a)
                        ELSE ChannelOf(geom, c)

\* C6 witness: the three index arrays of the notebook's two-axis,
\* two-feature example, 9 anchors by 18 columns.
C6_Witness ==
    /\ pc = "indexed"
    /\ ex = "2dmf"
    /\ Len(idx) = 3
    /\ idx[1].shape = <<9, 18>>
    /\ geom.d = 2

\* The (offset, channel) tuple that column c of the index arrays gathers:
\* what the arrays hold in the row of the first anchor, which is at the origin.
GatheredBy(c) == [a \in 1..Len(idx) |-> At(idx[a], <<0, c>>)]

\* The filter index tuple for offsets t and output filter j: the filter's
\* axes beyond the gathered ones (the output-filter axis, or the one-feature
\* example's feature axis of length 1) are indexed by j.
FilterIndex(w, t, j) == IF Len(w.shape) > Len(t) THEN t \o <<j>> ELSE t

FilterColumns(w, t) == IF Len(w.shape) > Len(t) THEN w.shape[Len(w.shape)] ELSE 1

\* The input index tuple of the element that offset tuple t selects in the
\* window anchored at row p; an input axis beyond the gathered ones (the
\* one-feature example's feature axis of length 1) is indexed by 0.
InputIndex(gm, x, p, t) ==
    [a \in 1..Len(t) |-> IF a <= gm.rank THEN AnchorOf(gm, p, a) + t[a] ELSE t[a]]
    \o (IF Len(x.shape) > Len(t) THEN <<0>> ELSE <<>>)

\* All (offset, channel) tuples of the window, as index tuples of length m.
Extent(gm, a) == IF a <= gm.rank THEN gm.k[a] ELSE gm.d

WindowTuples(gm, m) ==
    LET top == CHOOSE e \in {Extent(gm, a) : a \in 1..m} :
                   \A a \in 1..m : Extent(gm, a) <= e
    IN { t \in [1..m -> 0..(top - 1)] : \A a \in 1..m : t[a] < Extent(gm, a) }

\* The sum over the tuples S of input[anchor(p) + offset, ch] * filter[offset, ch, j].
RECURSIVE SumOver(_, _, _, _, _, _)
SumOver(S, gm, x, w, p, j) ==
    IF S = {} THEN 0
    ELSE LET t == CHOOSE u \in S : TRUE
         IN At(x, InputIndex(gm, x, p, t)) * At(w, FilterIndex(w, t, j))
            + SumOver(S \ {t}, gm, x, w, p, j)

Entry(T, p, j) == IF Len(T.shape) = 1 THEN At(T, <<p>>) ELSE At(T, <<p, j>>)

\* The filter with its spatial, channel and output-filter axes; the
\* multiple-filters example creates it flattened, (k_h*k_w*d, o).
FilterView ==
    IF ex = "multi" THEN Reshape(W, geom.k \o <<geom.d, geom.o>>) ELSE W

\* C7: when the filter of shape (k_h, [k_w,] d[, o]) is reshaped row-major to
\* (K,) or (K, o), flattened element c holds the weight of exactly the
\* (spatial offset, channel) pair that column c of the unfolded matrix
\* gathers, for every c in 0..K-1; consequently row p of the product is the
\* sum over all window offsets and channels of
\* input[anchor(p) + offset, ch] * filter[offset, ch].
C7_FilterOrdering ==
    /\ (Indexed /\ ex # "multi") =>
          \A c \in 0..(WindowSize(geom) - 1) :
              \A j \in 0..(FilterColumns(W, GatheredBy(c)) - 1) :
                  Entry(Wf, c, j) = At(W, FilterIndex(W, GatheredBy(c), j))
    /\ pc \in {"multiplied", "reshaped"} =>
          \A p \in 0..(WindowCount(geom) - 1) :
              \A j \in 0..(FilterColumns(FilterView, GatheredBy(0)) - 1) :
                  Entry(Z, p, j) =
                      SumOver(WindowTuples(geom, Len(idx)), geom, X, FilterView, p, j)

\* C7 witness: the product of the notebook's two-axis, two-feature example,
\* whose (3, 3, 2) filter was reshaped to (18, 1).
C7_Witness ==
    /\ pc = "multiplied"
    /\ ex = "2dmf"
    /\ W.shape = <<3, 3, 2>>
    /\ Wf.shape = <<18, 1>>
    /\ Z.shape = <<9, 1>>

----------------------------------------------------------------------------
(* The worked examples' printed values. *)

\* C8: with f = [1, 2, -1, 1, -3] padded with one zero at each end and
\* g = [-1, 0, 1], the output at positions 0..4 is [-2, 2, 1, 2, 1]: the values
\* of the double-sum reference (f |cnv| g)(n), and the matrix product
\* Z = Xhat.W of the one-axis, one-feature example.
C8_Concrete1D ==
    ex = "1d1f" =>
        /\ f = [n \in -1..5 |-> <<0, 1, 2, -1, 1, -3, 0>>[n + 2]]
        /\ g = [m \in -1..1 |-> <<-1, 0, 1>>[m + 2]]
        /\ X.data = [i \in 0..6 |-> <<0, 1, 2, -1, 1, -3, 0>>[i + 1]]
        /\ pc # "cnv" => ref = [n \in 0..4 |-> <<-2, 2, 1, 2, 1>>[n + 1]]
        /\ pc = "multiplied" =>
              /\ Z.shape = <<5, 1>>
              /\ Z.data = [n \in 0..4 |-> <<-2, 2, 1, 2, 1>>[n + 1]]
              /\ \A n \in 0..4 : Z.data[n] = ref[n]

\* C8 witness: the one-axis, one-feature example after cnv and the product.
C8_Witness ==
    /\ ex = "1d1f"
    /\ pc = "multiplied"
    /\ DOMAIN ref = 0..4
    /\ Xhat.shape = <<5, 3>>

\* C9: for the worked example's 5x5 matrix X and 3x3 filter W, gathering with
\* h_ix/w_ix, multiplying by W flattened to (9, 1) and reshaping to (3, 3)
\* yields exactly [[-9, 4, 14], [3, -9, 9], [-8, -4, 4]].
C9_Concrete2D ==
    ex = "2d1f" =>
        /\ X = Array2(<< << 0, -3, -2, -1,  0>>,
                         <<-3,  2, -3, -3,  1>>,
                         << 1,  0, -2, -2,  0>>,
                         << 1, -1,  0, -1, -2>>,
                         << 0, -3,  0,  1, -2>> >>)
        /\ W = Array2(<< <<-2,  2,  2>>,
                         <<-2, -3, -1>>,
                         << 0,  1,  1>> >>)
        /\ pc \in {"flattened", "indexed", "gathered", "multiplied", "reshaped"} =>
              Wf.shape = <<9, 1>>
        /\ pc \in {"gathered", "multiplied", "reshaped"} => Xhat.shape = <<9, 9>>
        /\ pc = "reshaped" =>
              out = Array2(<< <<-9,  4, 14>>,
                              << 3, -9,  9>>,
                              <<-8, -4,  4>> >>)

\* C9 witness: the two-axis, one-feature example after out.reshape((3, 3)).
C9_Witness ==
    /\ ex = "2d1f"
    /\ pc = "reshaped"
    /\ idx = <<h_ix, w_ix>>
    /\ out.shape = <<3, 3>>

----------------------------------------------------------------------------
(* Gather consistency. *)

Gathered == pc \in {"gathered", "multiplied", "reshaped"}

\* The input coordinate that entry (p, c) of the index arrays names.
Coordinate(p, c) ==
    [a \in 1..Len(idx) |-> Wrap(At(idx[a], <<p, c>>), X.shape[a])]

\* The input element at a coordinate; an input axis beyond the index arrays
\* (the one-feature example's feature axis of length 1) is indexed by 0.
InputAt(t) == At(X, t \o (IF Len(X.shape) > Len(t) THEN <<0>> ELSE <<>>))

Entries == (0..(WindowCount(geom) - 1)) \X (0..(WindowSize(geom) - 1))

\* C10: for every valid shape and every input, whenever two entries (p1, c1)
\* and (p2, c2) of the index arrays name the same input coordinate, the
\* unfolded matrix holds the same value at both, equal to the input element at
\* that coordinate.
C10_GatherConsistency ==
    Gathered =>
        \A e1 \in Entries :
            { e2 \in Entries :
                /\ Coordinate(e1[1], e1[2]) = Coordinate(e2[1], e2[2])
                /\ ~ /\ At(Xhat, e1) = At(Xhat, e2)
                     /\ At(Xhat, e1) = InputAt(Coordinate(e1[1], e1[2])) } = {}

\* C10 witness: the unfolded matrix of the two-axis, one-feature example,
\* where the windows at two different anchors share an input element.
C10_Witness ==
    /\ pc = "gathered"
    /\ ex = "2d1f"
    /\ \E e1 \in Entries :
          \E e2 \in Entries :
              /\ e1[1] # e2[1]
              /\ Coordinate(e1[1], e1[2]) = Coordinate(e2[1], e2[2])

----------------------------------------------------------------------------
(* The final reshape. *)

\* The anchors, as index tuples over the spatial shape of the output.
AnchorTuples(gm) ==
    { s \in [1..gm.rank -> 0..(WindowCount(gm) - 1)] :
        \A a \in 1..gm.rank : s[a] < SpatialShape(gm)[a] }

\* The row of the product for the window anchored at s: i for one spatial
\* axis, i*(n_w-k_w+1) + j for two.
RowOf(gm, s) ==
    IF gm.rank = 1 THEN s[1] ELSE s[1] * (gm.n[2] - gm.k[2] + 1) + s[2]

ProductColumns == IF Len(Z.shape) = 2 THEN Z.shape[2] ELSE 1

\* The output index of anchor s and filter j; the output has a filter axis
\* only when it has more axes than the geometry has spatial axes.
OutIndex(gm, s, j) == s \o (IF Len(out.shape) > gm.rank THEN <<j>> ELSE <<>>)

\* C11: after the product, reshaping the (P, [o]) result to
\* (n_h-k_h+1, [n_w-k_w+1,] [o]) places the value computed for the window
\* anchored at (i, j) at output position [i, j], and filter j' at [i, j, j']:
\* out[i, j] = Z[i*(n_w-k_w+1) + j], for every valid geometry.
C11_ReshapePreservesAnchorOrder ==
    pc = "reshaped" =>
        \A s \in AnchorTuples(geom) :
            \A j \in 0..(ProductColumns - 1) :
                /\ \A a \in 1..geom.rank : AnchorOf(geom, RowOf(geom, s), a) = s[a]
                /\ At(out, OutIndex(geom, s, j)) = Entry(Z, RowOf(geom, s), j)
                /\ At(out, OutIndex(geom, s, j)) =
                       SumOver(WindowTuples(geom, Len(idx)), geom, X, FilterView,
                               RowOf(geom, s), j)

\* C11 witness: the multiple-filters example after out.reshape((3, 3, 2)).
C11_Witness ==
    /\ pc = "reshaped"
    /\ ex = "multi"
    /\ Z.shape = <<9, 2>>
    /\ out.shape = <<3, 3, 2>>

----------------------------------------------------------------------------
(* The enumeration against the literal tables. *)

\* The enumeration's arrays agree with the tables written out: array for
\* array and entry for entry on the axes the tables index, and the array of an
\* axis the tables leave out (the single channel of a one-feature example) is 0
\* throughout.
AgreesWithTables(built, tables) ==
    /\ Len(built) >= Len(tables)
    /\ \A a \in 1..Len(tables) : built[a] = tables[a]
    /\ \A a \in (Len(tables) + 1)..Len(built) :
          \A i \in DOMAIN built[a].data : built[a].data[i] = 0

\* C12: the index enumeration run on (n=7, k=3, d=1) produces exactly the
\* literal ix; on (n=7, k=3, d=2) exactly ps_ix and ft_ix; on (5x5, 3x3, d=1)
\* exactly h_ix and w_ix; and on (5x5, 3x3, d=2) exactly h_ix, w_ix and ft_ix,
\* entry for entry, these being the index arrays the examples gather with.
C12_BuilderGeneralizesTables ==
    (Indexed /\ ex \in Examples) =>
        /\ ex = "1d1f" =>
              /\ Len(idx) = 1
              /\ AgreesWithTables(build_window_indices(<<7>>, <<3>>, 1), idx)
        /\ ex = "1dmf" =>
              /\ Len(idx) = 2
              /\ AgreesWithTables(build_window_indices(<<7>>, <<3>>, 2), idx)
        /\ ex = "2d1f" =>
              /\ Len(idx) = 2
              /\ AgreesWithTables(build_window_indices(<<5, 5>>, <<3, 3>>, 1), idx)
        /\ ex \in {"2dmf", "multi"} =>
              /\ Len(idx) = 3
              /\ AgreesWithTables(build_window_indices(<<5, 5>>, <<3, 3>>, 2), idx)
        /\ AgreesWithTables(build_window_indices(geom.n, geom.k, geom.d), idx)

\* C12 witness: the one-axis, two-feature example with ps_ix and ft_ix written out.
C12_Witness ==
    /\ pc = "indexed"
    /\ ex = "1dmf"
    /\ idx = <<ps_ix, ft_ix>>
    /\ geom.n = <<7>>
    /\ geom.k = <<3>>
    /\ geom.d = 2

----------------------------------------------------------------------------
(* The reference reverses the filter. *)

\* Element c of the g-sized window of f centred at n: f[n - M + c].
WindowOfF(n, M, c) == f[n - M + c]

\* Element c of g in reversed order: g[M - c].
ReversedG(M, c) == g[M - c]

\* C13: for every padded f, every odd-length g with support -M..M and every
\* valid n, conv_func(n) is the sum of the element-wise products of the window
\* f[n-M..n+M] with the elements of g in reversed order, which is the dot
\* product of unfolded row n with the reversed filter; the notebook's matmul
\* example accordingly uses W = [1, 0, -1] for g = [-1, 0, 1].
C13_ReferenceReversesFilter ==
    LET M == Cardinality(DOMAIN g) \div 2
    IN /\ RefDone =>
             \A n \in DOMAIN ref :
                 /\ ref[n] = SumSeq([c \in 1..(2 * M + 1) |->
                                 WindowOfF(n, M, c - 1) * ReversedG(M, c - 1)])
                 /\ Gathered =>
                       ref[n] = SumSeq([c \in 1..(2 * M + 1) |->
                                    At(Xhat, <<n, c - 1>>) * ReversedG(M, c - 1)])
       /\ ex = "1d1f" =>
             /\ g = [m \in -1..1 |-> <<-1, 0, 1>>[m + 2]]
             /\ W.data = [c \in 0..2 |-> <<1, 0, -1>>[c + 1]]
             /\ \A c \in 0..2 : W.data[c] = ReversedG(M, c)

\* C13 witness: cnv evaluated and the windows gathered in the notebook's
\* one-feature example, whose g is not symmetric.
C13_Witness ==
    /\ ex = "1d1f"
    /\ pc = "gathered"
    /\ DOMAIN ref = 0..4
    /\ g[-1] # g[1]
    /\ Xhat.shape = <<5, 3>>

----------------------------------------------------------------------------
(* Every access is inside its domain. *)

\* The length of the input along gathered axis a: n_h, n_w, then d.
AxisLength(gm, a) == IF a <= gm.rank THEN gm.n[a] ELSE gm.d

\* The coordinates of the input along the axes the index arrays gather.
InputCoordinates(gm, m) ==
    LET top == CHOOSE e \in {AxisLength(gm, a) : a \in 1..m} :
                   \A a \in 1..m : AxisLength(gm, a) <= e
    IN { t \in [1..m -> 0..(top - 1)] : \A a \in 1..m : t[a] < AxisLength(gm, a) }

\* C14: every entry of every window index array lies inside the input
\* (0 <= h_idx <= n_h-1, 0 <= w_idx <= n_w-1, 0 <= ch_idx <= d-1) and every
\* input coordinate is gathered by at least one window; and for an odd-length g
\* with M = int(len(g)/2) and f padded by M on each side, every step of
\* conv_func's loop over m in -M..M reads only keys present in f and in g, for
\* every n of the unpadded range, and the loop visits each key of g exactly once.
C14_NoOutOfDomainAccess ==
    /\ Indexed =>
          /\ \A a \in 1..Len(idx) :
                /\ X.shape[a] = AxisLength(geom, a)
                /\ { i \in DOMAIN idx[a].data :
                       \/ idx[a].data[i] < 0
                       \/ idx[a].data[i] > AxisLength(geom, a) - 1 } = {}
          /\ { [a \in 1..Len(idx) |-> At(idx[a], e)] : e \in Entries }
                = InputCoordinates(geom, Len(idx))
    /\ g # NoDict =>
          LET M     == Cardinality(DOMAIN g) \div 2
              reads == [n \in CnvPositions |-> conv_reads(n, -M, M)]
          IN /\ Cardinality(DOMAIN g) = 2 * M + 1
             /\ CnvPositions # {}
             /\ \A n \in CnvPositions :
                   /\ \A i \in 1..Len(reads[n]) :
                         /\ reads[n][i][1] \in DOMAIN f
                         /\ reads[n][i][2] \in DOMAIN g
                   /\ \A key \in DOMAIN g :
                         Cardinality({ i \in 1..Len(reads[n]) :
                                         reads[n][i][2] = key }) = 1

\* C14 witness: the notebook's one-feature example once cnv has run over
\* n = 0..4 and ix is written out, with f padded by one key on each side.
C14_Witness ==
    /\ ex = "1d1f"
    /\ pc = "indexed"
    /\ DOMAIN ref = 0..4
    /\ DOMAIN f = -1..5
    /\ DOMAIN g = -1..1
    /\ idx = <<ix>>

====
